---------------------------- MODULE Spec2Model ----------------------------
(***************************************************************************)
(* kpowa-server: the authenticate-or-register handler, the user            *)
(* repository, the JWT helpers, the access guard and the broadcast-backed  *)
(* event stream, as a state machine.                                       *)
(*                                                                         *)
(* Strings are sequences of one-character strings, so that the prefix      *)
(* slice and the concatenation of InviteCode::new are computed.            *)
(* Option<T> is a sequence of length 0 (None) or 1 (Some(x)).              *)
(* Result<T, E> is a record [tag |-> "Ok" | "Err", val |-> ...].           *)
(***************************************************************************)
EXTENDS Integers, Sequences, FiniteSets, TLC

(* ------------------------------- bounds -------------------------------- *)

\* Number of authenticate requests of a behaviour (each may run concurrently
\* with the others).
NumReq == 2

\* Number of values the random suffix is drawn from in the model: the
\* source draws from SUFFIX_MIN..=SUFFIX_MAX, the model from the first
\* NumSuffix values of that range, so that collisions happen.
NumSuffix == 2

\* Number of client connections to the protected routes; a connection
\* carries one request at a time, one after another.
NumProt == 1

\* The most the broadcast channel is asked to hold in the model (the source
\* asks for CHANNEL_CAPACITY), so that a slow receiver lags.
ChannelCapacity == 2

(* -------------------------- program constants -------------------------- *)

\* Uniform::from(1001..=9999)
SUFFIX_MIN == 1001
SUFFIX_MAX == 9999

\* &username[..=2]: the last byte index of the prefix slice.
PREFIX_LAST == 2

\* broadcast::channel(100)
CHANNEL_CAPACITY == 100

(* ------------------------------ Option/Result -------------------------- *)

None == <<>>
Some(x) == <<x>>
is_some(o) == Len(o) = 1
unwrap(o) == o[1]

Ok(v) == [tag |-> "Ok", val |-> v]
Err(e) == [tag |-> "Err", val |-> e]
is_ok(r) == r.tag = "Ok"

(* ------------------------------ strings -------------------------------- *)

Min(a, b) == IF a < b THEN a ELSE b

DigitChars == <<"0", "1", "2", "3", "4", "5", "6", "7", "8", "9">>

\* i32::to_string for a non-negative number: its decimal digits.
RECURSIVE to_string(_)
to_string(n) ==
    IF n < 10 THEN <<DigitChars[n + 1]>>
    ELSE to_string(n \div 10) \o <<DigitChars[(n % 10) + 1]>>

Al     == <<"a", "l">>
Alice  == <<"a", "l", "i", "c", "e">>
Alicia == <<"a", "l", "i", "c", "i", "a">>

\* The usernames clients submit.
Usernames == {Al, Alice, Alicia}

(* ------------------------------ fields.rs ------------------------------ *)

\* The values generate_invite_code_digit can return in the model.
Suffixes == SUFFIX_MIN .. Min(SUFFIX_MIN + NumSuffix - 1, SUFFIX_MAX)

\* generate_invite_code_digit: a sample of the uniform range, as a string.
generate_invite_code_digit(sample) == to_string(sample)

\* &username[..=2] panics when the string has fewer than three bytes.
prefix_panics(username) == Len(username) < PREFIX_LAST + 1

\* InviteCode::new(username), given the sample the generator drew.
InviteCode_new(username, sample) ==
    SubSeq(username, 1, PREFIX_LAST + 1) \o generate_invite_code_digit(sample)

\* The invitation codes clients submit: none, or one of the codes the
\* generator can produce for the usernames of the model.
InvitationCodes ==
    {None} \cup
    {Some(InviteCode_new(u, s)) : u \in {v \in Usernames : ~prefix_panics(v)},
                                  s \in Suffixes}

(* ------------------------------- jwt.rs -------------------------------- *)

\* config.jwt: the injected secret, issuer and token lifetime in seconds.
JwtExp == 2
JwtConfig == [secret |-> "secret", iss |-> "kpowa", exp |-> JwtExp]

\* Altered: a validator that allows the clock no leeway.
Validation_without_leeway == [algorithms |-> {"HS256"}, leeway |-> 0, validate_exp |-> TRUE]

\* Validation::default(): HS256, exp validated with a leeway of 60 seconds.
LEEWAY == 60
Validation_default == [algorithms |-> {"HS256"}, leeway |-> LEEWAY, validate_exp |-> TRUE]

\* The HMAC of a message under a key: equal tags only for equal key and message.
sign(secret, message) == <<secret, message>>

\* encode(&Header::default(), &claims, &EncodingKey::from_secret(secret))
encode(header, claims, secret) ==
    Ok([header |-> header, claims |-> claims, sig |-> sign(secret, <<header, claims>>)])

\* decode::<Claims>(token, &DecodingKey::from_secret(secret), &validation) at
\* time t: the algorithm, then the signature, then the expiry.
decode(token, secret, validation, t) ==
    IF token.header \notin validation.algorithms THEN Err("InvalidAlgorithm")
    ELSE IF token.sig # sign(secret, <<token.header, token.claims>>)
    THEN Err("InvalidSignature")
    ELSE IF validation.validate_exp /\ token.claims.exp < t - validation.leeway
    THEN Err("ExpiredSignature")
    ELSE Ok(token.claims)

\* Altered: the token is signed with the issuer string for a key.
generate_auth_token_wrong_key(username, jwt_config, t) ==
    LET claims == [iss |-> jwt_config.iss, sub |-> username, exp |-> t + jwt_config.exp]
        token  == encode("HS256", claims, jwt_config.iss)
    IN  IF is_ok(token) THEN Ok(token.val)
        ELSE Err(<<"GenerationFailed", token.val>>)

\* generate_auth_token(username, jwt_config), SystemTime::now() reading t.
generate_auth_token(username, jwt_config, t) ==
    LET claims == [iss |-> jwt_config.iss, sub |-> username, exp |-> t + jwt_config.exp]
        token  == encode("HS256", claims, jwt_config.secret)
    IN  IF is_ok(token) THEN Ok(token.val)
        ELSE Err(<<"GenerationFailed", token.val>>)

\* decode_auth_token(token, jwt_config), the validator's clock reading t.
decode_auth_token(token, jwt_config, t) ==
    LET token_data == decode(token, jwt_config.secret, Validation_default, t)
    IN  IF is_ok(token_data) THEN Ok(token_data.val)
        ELSE Err(<<"DecodeFailed", token_data.val>>)

(* ------------------------------ errors.rs ------------------------------ *)

\* impl From<DatabaseError> for ApiError
ApiError_from_DatabaseError(e) == "ServerError"

\* impl From<JWTError> for ApiError
ApiError_from_JWTError(e) == "AuthenticationError"

(* ---------------------------- repository.rs ---------------------------- *)

\* The referrals column of the select: count(referred_by) over the rows
\* whose referred_by is the username.
referrals(tbl, username) ==
    Cardinality({i \in 1..Len(tbl) : tbl[i].referred_by = Some(username)})

\* impl From<DbUser> for User
User_from(tbl, row) ==
    [username |-> row.username, invite_code |-> row.invite_code,
     referred_by |-> row.referred_by, referrals |-> referrals(tbl, row.username)]

\* fetch_optional: the first row the predicate selects, if any.
fetch_optional(tbl, rows) ==
    IF rows = {} THEN None
    ELSE Some(User_from(tbl, tbl[CHOOSE i \in rows : \A j \in rows : i <= j]))

\* get_user_by_username(pool, username); db_ok: the query ran.
get_user_by_username(tbl, username, db_ok) ==
    IF ~db_ok THEN Err("ServerError")
    ELSE Ok(fetch_optional(tbl, {i \in 1..Len(tbl) : tbl[i].username = username}))

\* get_user_by_invite_code(pool, invite_code)
get_user_by_invite_code(tbl, invite_code, db_ok) ==
    IF ~db_ok THEN Err("ServerError")
    ELSE Ok(fetch_optional(tbl, {i \in 1..Len(tbl) : tbl[i].invite_code = invite_code}))

\* The users table's unique constraints on username and on invite_code.
unique_violation(tbl, username, invite_code) ==
    \E i \in 1..Len(tbl) :
        tbl[i].username = username \/ tbl[i].invite_code = invite_code

\* The insert statement: the table after it, or the table unchanged when the
\* statement fails.
\* Altered: an insert the constraints do not stop.
insert_unconstrained(tbl, username, invite_code, referred_by, db_ok) ==
    IF ~db_ok
    THEN [res |-> Err("sqlx"), users |-> tbl]
    ELSE [res |-> Ok("done"),
          users |-> Append(tbl, [username |-> username, invite_code |-> invite_code,
                                   referred_by |-> referred_by])]

\* Altered: an insert that overwrites the row of a username already there.
insert_or_replace(tbl, username, invite_code, referred_by, db_ok) ==
    LET row  == [username |-> username, invite_code |-> invite_code,
                 referred_by |-> referred_by]
        same == {i \in 1..Len(tbl) : tbl[i].username = username}
    IN  IF ~db_ok THEN [res |-> Err("sqlx"), users |-> tbl]
        ELSE IF same # {}
        THEN [res |-> Ok("done"), users |-> [i \in 1..Len(tbl) |-> IF i \in same THEN row ELSE tbl[i]]]
        ELSE IF unique_violation(tbl, username, invite_code)
        THEN [res |-> Err("sqlx"), users |-> tbl]
        ELSE [res |-> Ok("done"), users |-> Append(tbl, row)]

insert_into_users(tbl, username, invite_code, referred_by, db_ok) ==
    IF ~db_ok \/ unique_violation(tbl, username, invite_code)
    THEN [res |-> Err("sqlx"), users |-> tbl]
    ELSE [res |-> Ok("done"),
          users |-> Append(tbl, [username |-> username, invite_code |-> invite_code,
                                   referred_by |-> referred_by])]

\* Altered: a create that reports success when the insert was refused for
\* a row already there (on conflict do nothing).
create_new_user_do_nothing(tbl, username, invite_code, referred_by, db_ok) ==
    LET q == insert_into_users(tbl, username, invite_code, referred_by, db_ok)
    IN  [res |-> IF is_ok(q.res) \/ db_ok THEN Ok("unit") ELSE Err("ServerError"),
         users |-> q.users]

\* create_new_user(pool, username, invite_code, referred_by)
create_new_user(tbl, username, invite_code, referred_by, db_ok) ==
    LET q == insert_into_users(tbl, username, invite_code, referred_by, db_ok)
    IN  [res |-> IF is_ok(q.res) THEN Ok("unit") ELSE Err("ServerError"),
         users |-> q.users]

\* username like '%pattern%': the pattern occurs somewhere in the username.
like(username, pattern) ==
    \E i \in 0..(Len(username) - Len(pattern)) :
        SubSeq(username, i + 1, i + Len(pattern)) = pattern

\* append_search_param_to_query: the rows whose username is not the
\* requester's and, when a pattern is given, is like it; in table order.
search(tbl, query) ==
    SelectSeq(tbl, LAMBDA row :
        /\ row.username # query.auth_user
        /\ is_some(query.username) => like(row.username, unwrap(query.username)))

\* order by created_on desc: the newest row first.
newest_first(rows) == [i \in 1..Len(rows) |-> rows[Len(rows) + 1 - i]]

\* limit $n offset $m; the Store refuses a negative limit or offset.
limit_offset(rows, limit, skip) ==
    IF limit < 0 \/ skip < 0 THEN Err("sqlx")
    ELSE Ok(SubSeq(rows, skip + 1, Min(skip + limit, Len(rows))))

\* fetch_users(pool, query): the page of users and the count of all matches.
fetch_users(tbl, query, db_ok) ==
    LET page == limit_offset(newest_first(search(tbl, query)), query.limit, query.skip)
    IN  IF ~db_ok \/ ~is_ok(page) THEN Err("ServerError")
        ELSE Ok([users |-> [i \in 1..Len(page.val) |-> User_from(tbl, page.val[i])],
                 count |-> Len(search(tbl, query))])

(* ------------------------------ events.rs ------------------------------ *)

\* AppEvent::NewLogin(user)
NewLogin(user) == [type |-> "NewLogin", data |-> user]

\* AppEvent::NewRegister(user)
NewRegister(user) == [type |-> "NewRegister", data |-> user]

\* AppEvent::NewReferral(NewReferralEvent { referrer, referred_user })
NewReferral(referrer, referred_user) ==
    [type |-> "NewReferral", data |-> [referrer |-> referrer, referred_user |-> referred_user]]

(* -------------------------------- state -------------------------------- *)

VARIABLES
    users,   \* the users table, in insertion order
    req,     \* the authenticate requests: position, payload, locals, response
    events,  \* every value the broadcast sender accepted, in send order
    preq,    \* per connection, its request to a protected route (a stream, maybe)
    jwt,     \* a token on its way from generate_auth_token to decode_auth_token
    chan,    \* the broadcast channel as Application::build made it
    now      \* the system clock, in seconds

vars == <<users, req, events, preq, jwt, chan, now>>

Reqs == 1..NumReq
Prots == 1..NumProt

\* The clock reading at which the server runs: late enough for a token
\* issued at 0 to have outlived its lifetime and the validator's leeway.
StartTime == JwtExp + LEEWAY + 1

\* The instants at which the tokens presented to the guard were issued:
\* long ago, one second less long ago, and just now.
IssueInstants == {0, 1, StartTime}

NoUser == [username |-> <<>>, invite_code |-> <<>>, referred_by |-> None, referrals |-> 0]

NewRequest ==
    [pc |-> "new", username |-> <<>>, invitation_code |-> None,
     referrer_username |-> None, invite_code |-> <<>>, retried |-> FALSE,
     user |-> NoUser, response |-> None, effects |-> <<>>, store_failed |-> FALSE]

NoToken == [header |-> "", claims |-> [iss |-> "", sub |-> <<>>, exp |-> 0], sig |-> <<>>]

\* QueryParams of a request that has none.
NoQuery == [username |-> None, page |-> None, limit |-> None]

NewProtected ==
    [pc |-> "new", route |-> "", bearer |-> NoToken, user |-> None,
     response |-> None, subscribed_at |-> 0, next |-> 0, forwarded |-> <<>>,
     lagged |-> 0, query |-> NoQuery, lookups |-> 0, store_failed |-> FALSE]

NoJwt == [pc |-> "idle", username |-> <<>>, issued_at |-> 0, token |-> NoToken,
          forged |-> FALSE, decoded_at |-> 0, result |-> None]

\* broadcast::channel(capacity): the buffer has the next power of two of
\* the requested capacity as its length.
RECURSIVE next_power_of_two_from(_, _)
next_power_of_two_from(n, k) == IF k >= n THEN k ELSE next_power_of_two_from(n, 2 * k)
next_power_of_two(n) == next_power_of_two_from(n, 1)

\* Altered: a buffer of exactly the capacity asked for.
channel_exact(capacity) == [capacity |-> capacity, buffer_len |-> capacity]

channel(capacity) == [capacity |-> capacity, buffer_len |-> next_power_of_two(capacity)]

Init ==
    /\ users = <<>>
    /\ req = [r \in Reqs |-> NewRequest]
    /\ events = <<>>
    /\ preq = [p \in Prots |-> NewProtected]
    /\ jwt = NoJwt
    /\ chan = channel(Min(ChannelCapacity, CHANNEL_CAPACITY))
    /\ now = StartTime

(* -------------------------------- app.rs ------------------------------- *)

\* The length of the channel's buffer.
buffer_len == chan.buffer_len

\* The receivers of the channel: the _rx that Application::build holds for
\* as long as the server runs, and one per open stream.
rx_cnt(streams) == 1 + Cardinality({p \in DOMAIN streams : streams[p].pc = "streaming"})

\* broadcast::Sender::send: refused when there is no receiver, else the
\* value is stored at the tail and the number of receivers returned.
send(sent, streams, value) ==
    IF rx_cnt(streams) = 0 THEN [res |-> Err("SendError"), events |-> sent]
    ELSE [res |-> Ok(rx_cnt(streams)), events |-> Append(sent, value)]

\* Altered: a new receiver that starts at the oldest value.
subscribe_from_head(sent) == 0

\* broadcast::Sender::subscribe: the new receiver starts at the tail.
subscribe(sent) == Len(sent)

\* Altered: a receiver that reads the value at its position and stays there.
recv_peek(sent, next) ==
    LET oldest == Len(sent) - buffer_len
    IN  IF next < oldest
        THEN [res |-> Err(<<"Lagged", oldest - next>>), next |-> oldest]
        ELSE [res |-> Ok(next + 1), next |-> next]

\* broadcast::Receiver::recv with a value or a lag to report: the receiver
\* that is more than the buffer behind the tail skips to the oldest value
\* kept and reports how many it missed; else it takes the value at its
\* position.
recv(sent, next) ==
    LET oldest == Len(sent) - buffer_len
    IN  IF next < oldest
        THEN [res |-> Err(<<"Lagged", oldest - next>>), next |-> oldest]
        ELSE [res |-> Ok(next + 1), next |-> next + 1]

(* ------------------------------- auth.rs ------------------------------- *)

\* The request returns: Ok(Json(token)) or Err(ApiError).
Return(rec, response) == [rec EXCEPT !.pc = "done", !.response = Some(response)]

\* The request returns because a call to the Store returned Err.
StoreFailure(rec, response) == Return([rec EXCEPT !.store_failed = TRUE], response)

\* generate_auth_token(..)?, Ok(Json(token.into())): lines 51-52 and 87-88.
IssueToken(rec, username) ==
    LET token == generate_auth_token(username, JwtConfig, now)
    IN  IF is_ok(token)
        THEN Return([rec EXCEPT !.effects = Append(@, "token")], Ok(token.val))
        ELSE Return(rec, Err(ApiError_from_JWTError(token.val)))

\* Altered: a supplied invitation code is looked up before the branch is taken.
AuthLookup_code_first(r, db_ok) ==
    /\ req[r].pc = "new"
    /\ \A q \in Reqs : q < r => req[q].pc # "new"
    /\ \E username \in Usernames, invitation_code \in InvitationCodes :
        LET rec  == [req[r] EXCEPT !.username = username,
                                   !.invitation_code = invitation_code]
            user == get_user_by_username(users, username, db_ok)
        IN  req' = [req EXCEPT ![r] =
                IF ~is_ok(user)
                THEN StoreFailure(rec, Err(ApiError_from_DatabaseError(user.val)))
                ELSE IF is_some(invitation_code)
                THEN [rec EXCEPT !.pc = "invite_lookup"]
                ELSE IF is_some(user.val)
                THEN [rec EXCEPT !.pc = "send_login", !.user = unwrap(user.val)]
                ELSE [rec EXCEPT !.pc = "gen_code"]]
    /\ UNCHANGED <<chan, users, events, preq, jwt, now>>

\* Lines 45-49 and 55: the request arrives with its payload (requests are
\* numbered in their order of arrival), the username is looked up, and the
\* handler branches.
AuthLookup(r, db_ok) ==
    /\ req[r].pc = "new"
    /\ \A q \in Reqs : q < r => req[q].pc # "new"
    /\ \E username \in Usernames, invitation_code \in InvitationCodes :
        LET rec  == [req[r] EXCEPT !.username = username,
                                   !.invitation_code = invitation_code]
            user == get_user_by_username(users, username, db_ok)
        IN  req' = [req EXCEPT ![r] =
                IF ~is_ok(user)
                THEN StoreFailure(rec, Err(ApiError_from_DatabaseError(user.val)))
                ELSE IF is_some(user.val)
                THEN [rec EXCEPT !.pc = "send_login", !.user = unwrap(user.val)]
                ELSE IF is_some(invitation_code)
                THEN [rec EXCEPT !.pc = "invite_lookup"]
                ELSE [rec EXCEPT !.pc = "gen_code"]]
    /\ UNCHANGED <<chan, users, events, preq, jwt, now>>

\* Altered: the token is made before the login is announced.
AuthLogin_token_first(r) ==
    /\ req[r].pc = "send_login"
    /\ LET sent == send(events, preq, NewLogin(req[r].user))
           rec  == IssueToken(req[r], req[r].user.username)
       IN  /\ events' = sent.events
           /\ req' = [req EXCEPT ![r] = [rec EXCEPT !.effects = Append(@, "NewLogin")]]
    /\ UNCHANGED <<chan, users, preq, jwt, now>>

\* Altered: the login branch announces a registration.
AuthLogin_as_register(r) ==
    /\ req[r].pc = "send_login"
    /\ LET sent == send(events, preq, NewRegister(req[r].user))
           rec  == [req[r] EXCEPT !.effects = Append(@, "NewRegister")]
       IN  /\ events' = sent.events
           /\ req' = [req EXCEPT ![r] = IssueToken(rec, req[r].user.username)]
    /\ UNCHANGED <<chan, users, preq, jwt, now>>

\* Lines 50-52: the login branch.
AuthLogin(r) ==
    /\ req[r].pc = "send_login"
    /\ LET sent == send(events, preq, NewLogin(req[r].user))
           rec  == [req[r] EXCEPT !.effects = Append(@, "NewLogin")]
       IN  /\ events' = sent.events
           /\ req' = [req EXCEPT ![r] = IssueToken(rec, req[r].user.username)]
    /\ UNCHANGED <<chan, users, preq, jwt, now>>

\* Altered: with a code nobody owns, the new user is its own referrer.
AuthInviteLookup_self(r, db_ok) ==
    /\ req[r].pc = "invite_lookup"
    /\ LET owner == get_user_by_invite_code(users, unwrap(req[r].invitation_code), db_ok)
           rec   == [req[r] EXCEPT !.effects = Append(@, "invite_lookup")]
       IN  req' = [req EXCEPT ![r] =
               IF ~is_ok(owner) THEN StoreFailure(rec, Err("InvalidInviteCode"))
               ELSE [rec EXCEPT !.pc = "gen_code",
                                !.referrer_username =
                                    IF is_some(owner.val)
                                    THEN Some(unwrap(owner.val).username)
                                    ELSE Some(req[r].username)]]
    /\ UNCHANGED <<chan, users, events, preq, jwt, now>>

\* Lines 55-62: the invitation code's owner becomes the referrer.
AuthInviteLookup(r, db_ok) ==
    /\ req[r].pc = "invite_lookup"
    /\ LET owner == get_user_by_invite_code(users, unwrap(req[r].invitation_code), db_ok)
           rec   == [req[r] EXCEPT !.effects = Append(@, "invite_lookup")]
       IN  req' = [req EXCEPT ![r] =
               IF ~is_ok(owner) THEN StoreFailure(rec, Err("InvalidInviteCode"))
               ELSE [rec EXCEPT !.pc = "gen_code",
                                !.referrer_username =
                                    IF is_some(owner.val)
                                    THEN Some(unwrap(owner.val).username) ELSE None]]
    /\ UNCHANGED <<chan, users, events, preq, jwt, now>>

\* Altered: the first candidate is taken, whoever owns it.
AuthGenCode_unchecked(r, sample, db_ok) ==
    /\ req[r].pc = "gen_code"
    /\ req' = [req EXCEPT ![r] =
        IF prefix_panics(req[r].username)
        THEN [req[r] EXCEPT !.pc = "panicked"]
        ELSE [req[r] EXCEPT !.invite_code = InviteCode_new(req[r].username, sample),
                            !.pc = "create"]]
    /\ UNCHANGED <<chan, users, events, preq, jwt, now>>

\* Lines 64-71: a candidate code is generated and the Store asked for its
\* owner; the loop goes round while it has one.
AuthGenCode(r, sample, db_ok) ==
    /\ req[r].pc = "gen_code"
    /\ req' = [req EXCEPT ![r] =
        IF prefix_panics(req[r].username)
        THEN [req[r] EXCEPT !.pc = "panicked"]
        ELSE LET code  == InviteCode_new(req[r].username, sample)
                 owner == get_user_by_invite_code(users, code, db_ok)
                 rec   == [req[r] EXCEPT !.invite_code = code]
             IN  IF ~is_ok(owner)
                 THEN StoreFailure(rec, Err(ApiError_from_DatabaseError(owner.val)))
                 ELSE IF is_some(owner.val) THEN [rec EXCEPT !.retried = TRUE]
                 ELSE [rec EXCEPT !.pc = "create"]]
    /\ UNCHANGED <<chan, users, events, preq, jwt, now>>

\* Altered: the result of the insert is dropped.
AuthCreate_unchecked(r, db_ok) ==
    /\ req[r].pc = "create"
    /\ LET created == create_new_user(users, req[r].username, req[r].invite_code,
                                      req[r].referrer_username, db_ok)
       IN  /\ users' = created.users
           /\ req' = [req EXCEPT ![r] =
                [req[r] EXCEPT !.pc = "reread", !.effects = Append(@, "create")]]
    /\ UNCHANGED <<chan, events, preq, jwt, now>>

\* Line 73: create_new_user(..).await?
AuthCreate(r, db_ok) ==
    /\ req[r].pc = "create"
    /\ LET created == create_new_user(users, req[r].username, req[r].invite_code,
                                      req[r].referrer_username, db_ok)
       IN  /\ users' = created.users
           /\ req' = [req EXCEPT ![r] =
                IF ~is_ok(created.res)
                THEN StoreFailure(req[r], Err(ApiError_from_DatabaseError(created.res.val)))
                ELSE [req[r] EXCEPT !.pc = "reread", !.effects = Append(@, "create")]]
    /\ UNCHANGED <<chan, events, preq, jwt, now>>

\* Lines 74-77: the created user is read back; unwrap panics on None.
AuthReread(r, db_ok) ==
    /\ req[r].pc = "reread"
    /\ LET user == get_user_by_username(users, req[r].username, db_ok)
           rec  == [req[r] EXCEPT !.effects = Append(@, "reread")]
       IN  req' = [req EXCEPT ![r] =
               IF ~is_ok(user)
               THEN StoreFailure(rec, Err(ApiError_from_DatabaseError(user.val)))
               ELSE IF ~is_some(user.val) THEN [rec EXCEPT !.pc = "panicked"]
               ELSE [rec EXCEPT !.user = unwrap(user.val),
                                !.pc = IF is_some(unwrap(user.val).referred_by)
                                       THEN "send_referral" ELSE "send_register"]]
    /\ UNCHANGED <<chan, users, events, preq, jwt, now>>

\* Altered: the referral names its two users the wrong way round.
AuthSendReferral_swapped(r) ==
    /\ req[r].pc = "send_referral"
    /\ LET user == req[r].user
           sent == send(events, preq, NewReferral(user.username, unwrap(user.referred_by)))
       IN  /\ events' = sent.events
           /\ req' = [req EXCEPT ![r] = [@ EXCEPT !.pc = "send_register",
                                                  !.effects = Append(@, "NewReferral")]]
    /\ UNCHANGED <<chan, users, preq, jwt, now>>

\* Lines 77-84: the referral is published.
AuthSendReferral(r) ==
    /\ req[r].pc = "send_referral"
    /\ LET user == req[r].user
           sent == send(events, preq, NewReferral(unwrap(user.referred_by), user.username))
       IN  /\ events' = sent.events
           /\ req' = [req EXCEPT ![r] = [@ EXCEPT !.pc = "send_register",
                                                  !.effects = Append(@, "NewReferral")]]
    /\ UNCHANGED <<chan, users, preq, jwt, now>>

\* Altered: a registration that fails when nobody is listening.
AuthRegister_needs_listener(r) ==
    /\ req[r].pc = "send_register"
    /\ LET sent == send(events, preq, NewRegister(req[r].user))
           rec  == [req[r] EXCEPT !.effects = Append(@, "NewRegister")]
       IN  IF rx_cnt(preq) <= 1
           THEN /\ events' = events
                /\ req' = [req EXCEPT ![r] = Return(req[r], Err("ServerError"))]
           ELSE /\ events' = sent.events
                /\ req' = [req EXCEPT ![r] = IssueToken(rec, req[r].user.username)]
    /\ UNCHANGED <<chan, users, preq, jwt, now>>

\* Lines 86-88: the registration is published and the token returned.
AuthRegister(r) ==
    /\ req[r].pc = "send_register"
    /\ LET sent == send(events, preq, NewRegister(req[r].user))
           rec  == [req[r] EXCEPT !.effects = Append(@, "NewRegister")]
       IN  /\ events' = sent.events
           /\ req' = [req EXCEPT ![r] = IssueToken(rec, req[r].user.username)]
    /\ UNCHANGED <<chan, users, preq, jwt, now>>

\* A token signed with a key that is not the server's.
forge(token) == [token EXCEPT !.sig = sign("forged", <<token.header, token.claims>>)]

\* The tokens clients present: for every username, tokens the server's key
\* signed at the issue instants, and forgeries of the latest.
PresentedTokens ==
    {generate_auth_token(u, JwtConfig, t).val : u \in Usernames, t \in IssueInstants}
    \cup {forge(generate_auth_token(u, JwtConfig, StartTime).val) : u \in Usernames}

\* The tokens the authenticate requests of this run returned.
IssuedTokens ==
    {unwrap(req[r].response).val :
        r \in {q \in Reqs : req[q].pc = "done" /\ is_ok(unwrap(req[q].response))}}

\* Altered: a guard that takes the token's word for the user.
check_auth_without_lookup(bearer, tbl, db_ok) ==
    LET token == decode_auth_token(bearer, JwtConfig, now)
    IN  IF is_ok(token)
        THEN [next |-> TRUE, user |-> Some([NoUser EXCEPT !.username = token.val.sub]),
              response |-> None, lookups |-> 0,
              store_failed |-> FALSE]
        ELSE [next |-> FALSE, user |-> None, response |-> Some("401 Unauthorized"),
              lookups |-> 0,
              store_failed |-> FALSE]

\* Altered: a guard that asks the Store before it looks at the verdict.
check_auth_lookup_first(bearer, tbl, db_ok) ==
    LET token == decode_auth_token(bearer, JwtConfig, now)
        user  == get_user_by_username(tbl, bearer.claims.sub, db_ok)
    IN  IF is_ok(token) /\ is_ok(user) /\ is_some(user.val)
        THEN [next |-> TRUE, user |-> user.val, response |-> None, lookups |-> 1,
              store_failed |-> ~is_ok(user)]
        ELSE [next |-> FALSE, user |-> None, response |-> Some("401 Unauthorized"),
              lookups |-> 1,
              store_failed |-> ~is_ok(user)]

\* Altered: a guard that tells an expired token from a badly signed one.
check_auth_tells_expiry(bearer, tbl, db_ok) ==
    LET token == decode_auth_token(bearer, JwtConfig, now)
        user  == IF is_ok(token) THEN get_user_by_username(tbl, token.val.sub, db_ok)
                 ELSE Err("not looked up")
        lookups == IF is_ok(token) THEN 1 ELSE 0
    IN  IF is_ok(token) /\ is_ok(user) /\ is_some(user.val)
        THEN [next |-> TRUE, user |-> user.val, response |-> None, lookups |-> lookups,
              store_failed |-> is_ok(token) /\ ~is_ok(user)]
        ELSE [next |-> FALSE, user |-> None,
              response |-> IF ~is_ok(token) /\ token.val[2] = "ExpiredSignature"
                           THEN Some("401 Token expired") ELSE Some("401 Unauthorized"),
              lookups |-> lookups,
              store_failed |-> is_ok(token) /\ ~is_ok(user)]

\* check_auth, lines 91-117: the bearer token is decoded and its subject
\* looked up; the user found is attached and the route's handler runs, and
\* every other request is answered 401.  (The Config and Db extensions are
\* the layers Application::build installs: both are there.)
check_auth(bearer, tbl, db_ok) ==
    LET token == decode_auth_token(bearer, JwtConfig, now)
        user  == IF is_ok(token) THEN get_user_by_username(tbl, token.val.sub, db_ok)
                 ELSE Err("not looked up")
        lookups == IF is_ok(token) THEN 1 ELSE 0
    IN  IF is_ok(token) /\ is_ok(user) /\ is_some(user.val)
        THEN [next |-> TRUE, user |-> user.val, response |-> None, lookups |-> lookups,
              store_failed |-> is_ok(token) /\ ~is_ok(user)]
        ELSE [next |-> FALSE, user |-> None, response |-> Some("401 Unauthorized"),
              lookups |-> lookups,
              store_failed |-> is_ok(token) /\ ~is_ok(user)]

CheckAuth(p, route, bearer, db_ok) ==
    /\ preq[p].pc \in {"new", "done", "closed"}
    /\ \A q \in Prots : q < p => preq[q].pc # "new"
    /\ LET guard == check_auth(bearer, users, db_ok)
       IN  preq' = [preq EXCEPT ![p] =
               [NewProtected EXCEPT !.route = route, !.bearer = bearer,
                                    !.user = guard.user, !.response = guard.response,
                                    !.lookups = guard.lookups,
                                    !.store_failed = guard.store_failed,
                                    !.pc = IF guard.next THEN "handler" ELSE "done"]]
    /\ UNCHANGED <<chan, users, req, events, jwt, now>>

\* authenticate, with every Store call succeeding.
authenticate(r) ==
    \/ AuthLookup(r, TRUE)
    \/ AuthLogin(r)
    \/ AuthInviteLookup(r, TRUE)
    \/ \E sample \in Suffixes : AuthGenCode(r, sample, TRUE)
    \/ AuthCreate(r, TRUE)
    \/ AuthReread(r, TRUE)
    \/ AuthSendReferral(r)
    \/ AuthRegister(r)

Next == \E r \in Reqs : authenticate(r)

Spec == Init /\ [][Next]_vars

\* authenticate, with Store calls that succeed (db_ok) or fail.
authenticate_with(r, db_ok) ==
    \/ AuthLookup(r, db_ok)
    \/ AuthLogin(r)
    \/ AuthInviteLookup(r, db_ok)
    \/ \E sample \in Suffixes : AuthGenCode(r, sample, db_ok)
    \/ AuthCreate(r, db_ok)
    \/ AuthReread(r, db_ok)
    \/ AuthSendReferral(r)
    \/ AuthRegister(r)

NextFault == \E r \in Reqs : \E db_ok \in BOOLEAN : authenticate_with(r, db_ok)

SpecFault == Init /\ [][NextFault]_vars

(* ------------------------------- user.rs ------------------------------- *)

\* get_authenticated_user: the user the guard attached, as the response.
GetAuthenticatedUser(p) ==
    /\ preq[p].pc = "handler"
    /\ preq[p].route = "/users/me"
    /\ preq' = [preq EXCEPT ![p] =
           [@ EXCEPT !.pc = "done",
                     !.response = Some(<<"200 OK", unwrap(preq[p].user)>>)]]
    /\ UNCHANGED <<chan, users, req, events, jwt, now>>

\* QueryParams' defaults: page 1, limit 10.
DEFAULT_PAGE == 1
DEFAULT_LIMIT == 10

unwrap_or(o, default) == IF is_some(o) THEN unwrap(o) ELSE default

\* Altered: the number of pages is the count divided by the limit, rounded up.
get_users_rounding_up(tbl, user, query, db_ok) ==
    LET page  == unwrap_or(query.page, DEFAULT_PAGE)
        limit == unwrap_or(query.limit, DEFAULT_LIMIT)
        found == fetch_users(tbl, [username |-> query.username, auth_user |-> user.username,
                                   limit |-> limit, skip |-> (page - 1) * limit], db_ok)
    IN  IF ~is_ok(found) THEN Err(ApiError_from_DatabaseError(found.val))
        ELSE IF limit = 0 THEN [tag |-> "Panic", val |-> "attempt to divide by zero"]
        ELSE LET total_pages == (found.val.count + limit - 1) \div limit
             IN  Ok([users |-> found.val.users, has_next |-> page < total_pages,
                     has_prev |-> page > 1, current_page |-> page,
                     total_pages |-> total_pages])

\* get_users, lines 54-77; the division by a limit of 0 panics.
get_users(tbl, user, query, db_ok) ==
    LET page  == unwrap_or(query.page, DEFAULT_PAGE)
        limit == unwrap_or(query.limit, DEFAULT_LIMIT)
        skip  == (page - 1) * limit
        found == fetch_users(tbl, [username |-> query.username, auth_user |-> user.username,
                                   limit |-> limit, skip |-> skip], db_ok)
    IN  IF ~is_ok(found) THEN Err(ApiError_from_DatabaseError(found.val))
        ELSE IF limit = 0 THEN [tag |-> "Panic", val |-> "attempt to divide by zero"]
        ELSE LET total_pages == (found.val.count \div limit) + 1
             IN  Ok([users |-> found.val.users, has_next |-> page < total_pages,
                     has_prev |-> page > 1, current_page |-> page,
                     total_pages |-> total_pages])

\* GET /users?username=&page=&limit=, past the guard.
GetUsers(p, query, db_ok) ==
    /\ preq[p].pc = "handler"
    /\ preq[p].route = "/users"
    /\ LET answer == get_users(users, unwrap(preq[p].user), query, db_ok)
       IN  preq' = [preq EXCEPT ![p] =
               IF answer.tag = "Panic" THEN [preq[p] EXCEPT !.pc = "panicked", !.query = query]
               ELSE [preq[p] EXCEPT !.pc = "done", !.query = query,
                                    !.response = Some(answer)]]
    /\ UNCHANGED <<chan, users, req, events, jwt, now>>

(* ------------------------------- event.rs ------------------------------ *)

\* stream, line 18: the connection subscribes to the channel.
Stream(p) ==
    /\ preq[p].pc = "handler"
    /\ preq[p].route = "/stream"
    /\ preq' = [preq EXCEPT ![p] =
           [@ EXCEPT !.pc = "streaming", !.subscribed_at = Len(events),
                     !.next = subscribe(events)]]
    /\ UNCHANGED <<chan, users, req, events, jwt, now>>

\* stream, lines 21-33: one round of the loop, once recv has something to
\* return: a value is serialised and yielded to the peer, a lag is logged.
StreamRecv(p) ==
    /\ preq[p].pc = "streaming"
    /\ preq[p].next < Len(events)
    /\ LET got == recv(events, preq[p].next)
       IN  preq' = [preq EXCEPT ![p] =
               IF is_ok(got.res)
               THEN [@ EXCEPT !.next = got.next, !.forwarded = Append(@, got.res.val)]
               ELSE [@ EXCEPT !.next = got.next, !.lagged = @ + got.res.val[2]]]
    /\ UNCHANGED <<chan, users, req, events, jwt, now>>

\* The peer goes away: the response stream, and the receiver in it, is dropped.
StreamClose(p) ==
    /\ preq[p].pc = "streaming"
    /\ preq' = [preq EXCEPT ![p] = [@ EXCEPT !.pc = "closed"]]
    /\ UNCHANGED <<chan, users, req, events, jwt, now>>

\* The protected routes, any token presented.
GuardNext ==
    \E p \in Prots :
        \/ \E bearer \in PresentedTokens \cup IssuedTokens :
               CheckAuth(p, "/users/me", bearer, TRUE)
        \/ GetAuthenticatedUser(p)

SpecGuard == Init /\ [][Next \/ GuardNext]_vars

\* The tokens of clients that logged in before the server started.
EarlierTokens == {generate_auth_token(u, JwtConfig, StartTime).val : u \in Usernames}

\* The event stream.
BusNext ==
    \E p \in Prots :
        \/ \E bearer \in EarlierTokens \cup IssuedTokens :
               CheckAuth(p, "/stream", bearer, TRUE)
        \/ Stream(p)
        \/ StreamRecv(p)
        \/ StreamClose(p)

SpecBus == Init /\ [][Next \/ BusNext]_vars

(* ----------------------- the token, on its own ------------------------ *)

\* The last clock reading of the token's life that is followed: past the
\* end of the leeway of a token issued at 0.
MaxClock == StartTime + 1

InitJwt ==
    /\ users = <<>>
    /\ req = [r \in Reqs |-> NewRequest]
    /\ events = <<>>
    /\ preq = [p \in Prots |-> NewProtected]
    /\ jwt = NoJwt
    /\ chan = channel(Min(ChannelCapacity, CHANNEL_CAPACITY))
    /\ now = 0

\* A second passes.
JwtTick ==
    /\ now < MaxClock
    /\ now' = now + 1
    /\ UNCHANGED <<chan, users, req, events, preq, jwt>>

\* generate_auth_token(username, &config.jwt)
JwtGenerate(username) ==
    /\ jwt.pc = "idle"
    /\ LET token == generate_auth_token(username, JwtConfig, now)
       IN  /\ is_ok(token)
           /\ jwt' = [jwt EXCEPT !.pc = "issued", !.username = username,
                                 !.issued_at = now, !.token = token.val]
    /\ UNCHANGED <<chan, users, req, events, preq, now>>

\* The token is replaced by one with the same claims and another key's signature.
JwtForge ==
    /\ jwt.pc = "issued"
    /\ ~jwt.forged
    /\ jwt' = [jwt EXCEPT !.token = forge(@), !.forged = TRUE]
    /\ UNCHANGED <<chan, users, req, events, preq, now>>

\* decode_auth_token(token, &config.jwt)
JwtDecode ==
    /\ jwt.pc \in {"issued", "decoded"}
    /\ jwt' = [jwt EXCEPT !.pc = "decoded", !.decoded_at = now,
                          !.result = Some(decode_auth_token(jwt.token, JwtConfig, now))]
    /\ UNCHANGED <<chan, users, req, events, preq, now>>

NextJwt ==
    \/ JwtTick
    \/ \E username \in Usernames : JwtGenerate(username)
    \/ JwtForge
    \/ JwtDecode

SpecJwt == InitJwt /\ [][NextJwt]_vars

(* --------------------------- the list of users ------------------------- *)

\* The largest table the list is taken from (the requester apart), the
\* last page asked for and the largest limit.
MaxOthers == 25
MaxPage == 4
MaxLimit == 10

Usr == <<"u", "s", "r">>

\* The i-th of the other users: usr<i>, with the code usr<1000 + i>.
Other(i) == [username |-> Usr \o to_string(i), invite_code |-> Usr \o to_string(1000 + i),
             referred_by |-> IF i % 2 = 0 THEN Some(Alice) ELSE None]

\* A table of n other users with the requester, alice, created k-th.
PageTable(n, k) ==
    [i \in 1..(n + 1) |->
        IF i = k THEN [username |-> Alice, invite_code |-> InviteCode_new(Alice, SUFFIX_MIN),
                       referred_by |-> None]
        ELSE Other(IF i < k THEN i ELSE i - 1)]

Patterns == {None, Some(<<"1">>), Some(<<"r", "2">>), Some(<<"a", "l", "i">>)}

Queries ==
    [username : Patterns,
     page     : {None} \cup {Some(i) : i \in 0..MaxPage},
     limit    : {None} \cup {Some(i) : i \in 0..MaxLimit}]

InitPage ==
    /\ \E n \in 0..MaxOthers : \E k \in {1, n + 1} : users = PageTable(n, k)
    /\ req = [r \in Reqs |-> NewRequest]
    /\ events = <<>>
    /\ preq = [p \in Prots |-> NewProtected]
    /\ jwt = NoJwt
    /\ chan = channel(Min(ChannelCapacity, CHANNEL_CAPACITY))
    /\ now = StartTime

NextPage ==
    \E p \in Prots :
        \/ \E bearer \in EarlierTokens : CheckAuth(p, "/users", bearer, TRUE)
        \/ \E query \in Queries : GetUsers(p, query, TRUE)

SpecPage == InitPage /\ [][NextPage]_vars

(* --------------------------- the channel alone ------------------------- *)

\* The largest capacity the channel is made with, and the most values sent.
MaxCapacity == 3
MaxSent == 6

InitChan ==
    /\ users = PageTable(0, 1)
    /\ req = [r \in Reqs |-> NewRequest]
    /\ events = <<>>
    /\ preq = [p \in Prots |-> NewProtected]
    /\ jwt = NoJwt
    /\ \E capacity \in 1..MaxCapacity : chan = channel(capacity)
    /\ now = StartTime

\* state.get_sender().send(AppEvent::NewLogin(user)): a login is announced.
Publish(user) ==
    /\ Len(events) < MaxSent
    /\ events' = send(events, preq, NewLogin(user)).events
    /\ UNCHANGED <<chan, users, req, preq, jwt, now>>

NextChan ==
    \/ \E i \in 1..Len(users) : Publish(User_from(users, users[i]))
    \/ \E p \in Prots :
           \/ \E bearer \in EarlierTokens : CheckAuth(p, "/stream", bearer, TRUE)
           \/ Stream(p)
           \/ StreamRecv(p)
           \/ StreamClose(p)

SpecChan == InitChan /\ [][NextChan]_vars

(* ----------------------- every route, a Store that fails --------------- *)

\* The routes behind the guard (Application::build, the protected router).
Routes == {"/users/me", "/users", "/stream"}

\* The list as it is asked for here: whole, and its second page of one.
ListQueries == {NoQuery, [username |-> None, page |-> Some(2), limit |-> Some(1)]}

\* The tokens presented: those this run's authenticate requests returned,
\* and alice's from before the server started.
AppTokens == {generate_auth_token(Alice, JwtConfig, StartTime).val} \cup IssuedTokens

\* One step of a request to a protected route; each call to the Store
\* succeeds (db_ok) or fails.
ProtectedNext ==
    \E p \in Prots :
        \/ \E route \in Routes, bearer \in AppTokens, db_ok \in BOOLEAN :
               CheckAuth(p, route, bearer, db_ok)
        \/ GetAuthenticatedUser(p)
        \/ \E query \in ListQueries, db_ok \in BOOLEAN : GetUsers(p, query, db_ok)
        \/ Stream(p)
        \/ StreamRecv(p)
        \/ StreamClose(p)

NextApp == NextFault \/ ProtectedNext

SpecApp == Init /\ [][NextApp]_vars

(* ------------------------ a fair random generator ---------------------- *)

\* Every value of the range is drawn again and again by a loop that goes on.
SpecFair ==
    /\ Spec
    /\ \A r \in Reqs : \A sample \in Suffixes : WF_vars(AuthGenCode(r, sample, TRUE))

(* ======================= authenticate: the claims ====================== *)

Publishes == {"NewLogin", "NewReferral", "NewRegister"}

IsPublish(e) == e \in Publishes

\* The events request r published, in order.
Published(r) == SelectSeq(req[r].effects, IsPublish)

Has(r, effect) == \E i \in 1..Len(req[r].effects) : req[r].effects[i] = effect

Count(r, effect) ==
    Cardinality({i \in 1..Len(req[r].effects) : req[r].effects[i] = effect})

Done(r) == req[r].pc = "done"

Responded(r, response) == Done(r) /\ req[r].response = Some(response)

RespondedOk(r) == Done(r) /\ is_ok(unwrap(req[r].response))

\* Request r found no user under its username and went on to register.
TookRegistration(r) == req[r].pc \notin {"new", "send_login"} /\ ~Has(r, "NewLogin")

\* Request r found the user and went on to log in.
TookLogin(r) == req[r].pc = "send_login" \/ Has(r, "NewLogin")

RowsOfUsername(username) == {i \in 1..Len(users) : users[i].username = username}

RowsOfCode(code) == {i \in 1..Len(users) : users[i].invite_code = code}

EventsOfType(type) == {i \in 1..Len(events) : events[i].type = type}

\* C1: a registration whose invitation code is owned by no user fails with
\* InvalidInviteCode and leaves no user behind.  (The users table only
\* grows, so a code without an owner now had none when it was looked up.)
C1_UnknownCodeAborts ==
    \A r \in Reqs :
        (/\ Done(r)
         /\ TookRegistration(r)
         /\ is_some(req[r].invitation_code)
         /\ RowsOfCode(unwrap(req[r].invitation_code)) = {})
        => /\ req[r].response = Some(Err("InvalidInviteCode"))
           /\ RowsOfUsername(req[r].username) = {}

\* Every row of the table was inserted by the create step of one request,
\* and every request past its create step inserted one row.
PastCreate(r) == Has(r, "create")

LooksUp(r) == req[r].pc = "new" /\ req'[r].pc # "new"

\* The step in which request r, on the login branch, publishes and returns.
LogsIn(r) == req[r].pc = "send_login" /\ req'[r].pc = "done"

C3_Branch ==
    \A r \in Reqs :
        LooksUp(r) => (RowsOfUsername(req'[r].username) # {} <=> req'[r].pc = "send_login")

C3_LoginStep ==
    \A r \in Reqs :
        LogsIn(r) =>
            /\ users' = users
            /\ Len(events') = Len(events) + 1
            /\ events'[Len(events')].type = "NewLogin"
            /\ events'[Len(events')].data.username = req[r].username

C3_LoginResult ==
    \A r \in Reqs :
        (Done(r) /\ TookLogin(r)) =>
            /\ req[r].effects = <<"NewLogin", "token">>
            /\ RespondedOk(r)
            /\ unwrap(req[r].response).val.claims.sub = req[r].username
            /\ req[r].user.username = req[r].username
            /\ RowsOfUsername(req[r].username) # {}

\* C3: a request whose username is in the Store when it is looked up takes
\* the login branch (so does every request for u that arrives after u was
\* registered); the login branch leaves the table as it is, publishes one
\* NewLogin event and nothing else, and returns a token whose subject is
\* the existing user's username.
C3_LoginForExistingUser ==
    /\ [][C3_Branch /\ C3_LoginStep]_vars
    /\ [](C3_LoginResult)

\* A username was registered by one request and logged in by a later one.
C3_Witness ==
    \E r, q \in Reqs :
        /\ RespondedOk(q) /\ PastCreate(q)
        /\ RespondedOk(r) /\ TookLogin(r)
        /\ req[r].username = req[q].username

\* The step in which request r looks its invitation code up and goes on.
ResolvesReferrer(r) == req[r].pc = "invite_lookup" /\ req'[r].pc = "gen_code"

\* The referrer a registration records is the owner the invitation code has
\* when it is looked up.
C4_Referrer ==
    \A r \in Reqs :
        ResolvesReferrer(r) =>
            \A i \in RowsOfCode(unwrap(req[r].invitation_code)) :
                req'[r].referrer_username = Some(users[i].username)

ReferralsOf(referred_user) ==
    {i \in EventsOfType("NewReferral") : events[i].data.referred_user = referred_user}

RegistersOf(username) ==
    {i \in EventsOfType("NewRegister") : events[i].data.username = username}

C4_Registration ==
    \A r \in Reqs :
        (RespondedOk(r) /\ PastCreate(r)) =>
            /\ \A i \in RowsOfUsername(req[r].username) :
                   users[i].referred_by = req[r].referrer_username
            /\ Cardinality(RegistersOf(req[r].username)) = 1
            /\ IF is_some(req[r].referrer_username)
               THEN /\ Published(r) = <<"NewReferral", "NewRegister">>
                    /\ Cardinality(ReferralsOf(req[r].username)) = 1
                    /\ \A i \in ReferralsOf(req[r].username) :
                           /\ events[i].data.referrer = unwrap(req[r].referrer_username)
                           /\ \A j \in RegistersOf(req[r].username) : i < j
               ELSE /\ Published(r) = <<"NewRegister">>
                    /\ ReferralsOf(req[r].username) = {}

\* C4: a registration with an invitation code that user A owns records A's
\* username as referredBy and publishes one NewReferral{A, new user} and one
\* NewRegister; a registration that records no referrer publishes no
\* NewReferral.
C4_ReferralPublished ==
    /\ [][C4_Referrer]_vars
    /\ [](C4_Registration)

\* A registration with a referrer has returned.
C4_Witness ==
    \E r \in Reqs :
        /\ RespondedOk(r) /\ PastCreate(r)
        /\ is_some(req[r].referrer_username)
        /\ ReferralsOf(req[r].username) # {}

Inserted == {r \in Reqs : req[r].pc \in {"reread", "send_referral", "send_register"}
                          \/ (Done(r) /\ TookRegistration(r) /\ RespondedOk(r))}

Collided(r) == Responded(r, Err("ServerError"))

\* C6: of the registrations that collide on a unique constraint at insert
\* time one inserts its row; the other returns ServerError, has created no
\* user, published nothing and issued no token.
C6_InsertCollision ==
    /\ Cardinality(Inserted) = Len(users)
    /\ Len(events) = Cardinality({<<q, i>> \in Reqs \X (1..2) : i <= Len(Published(q))})
    /\ \A r \in Reqs :
        Collided(r) =>
            /\ req[r].effects \in {<<>>, <<"invite_lookup">>}
            /\ \E q \in Inserted \ {r} :
                   \/ req[q].username = req[r].username
                   \/ req[q].invite_code = req[r].invite_code
            /\ Cardinality(RowsOfUsername(req[r].username)) <= 1
            /\ Cardinality(RowsOfCode(req[r].invite_code)) <= 1
            /\ RowsOfUsername(req[r].username) \cup RowsOfCode(req[r].invite_code) # {}

\* Two registrations drew the same code for different usernames and collided.
C6_Witness ==
    \E r, q \in Reqs :
        /\ Collided(r) /\ q \in Inserted
        /\ req[q].invite_code = req[r].invite_code
        /\ req[q].username # req[r].username

(* ===================== the invite-code loop: claims ==================== *)

InLoop(r) == req[r].pc = "gen_code"

\* A suffix whose code, under the request's prefix, has no owner.
FreeSuffix(r) ==
    /\ ~prefix_panics(req[r].username)
    /\ \E sample \in Suffixes : RowsOfCode(InviteCode_new(req[r].username, sample)) = {}

\* The step in which request r leaves the loop with a code.
AcceptsCode(r) == InLoop(r) /\ req'[r].pc = "create"

C7_Accepts ==
    \A r \in Reqs :
        AcceptsCode(r) =>
            /\ RowsOfCode(req'[r].invite_code) = {}
            /\ \E sample \in Suffixes :
                   req'[r].invite_code = SubSeq(req[r].username, 1, 3) \o to_string(sample)

\* C7: the invite-code loop ends when some suffix is without an owner under
\* the username's prefix and the generator is fair; the code it leaves with
\* has no owner in the Store when it is checked.
C7_LoopTerminates ==
    /\ [][C7_Accepts]_vars
    /\ \A r \in Reqs :
           (InLoop(r) /\ ~prefix_panics(req[r].username))
               ~> (~InLoop(r) \/ ~FreeSuffix(r))

\* A request drew an owned code, went round the loop and left it.
C7_Witness == \E r \in Reqs : req[r].retried /\ req[r].pc = "create"

(* ============================ jwt: claims ============================== *)

JwtVerified == jwt.pc = "decoded" /\ ~jwt.forged

\* C8, as stated: the token verifies until its expiry and is refused at any
\* time after it.
C8_RefusedAfterExpiry ==
    JwtVerified =>
        IF jwt.decoded_at <= jwt.issued_at + JwtExp
        THEN is_ok(unwrap(jwt.result)) /\ unwrap(jwt.result).val.sub = jwt.username
        ELSE ~is_ok(unwrap(jwt.result))

\* C8, amended: the token generate_auth_token returns for u expires at its
\* issue time plus the configured lifetime; decode_auth_token returns its
\* claims, subject u, at any time up to the expiry plus the validator's
\* leeway of 60 seconds, and fails with a JWTError, which converts to
\* AuthenticationError, at any later time.
C8_RoundTripWithLeeway ==
    JwtVerified =>
        /\ jwt.token.claims.exp = jwt.issued_at + JwtExp
        /\ IF jwt.decoded_at <= jwt.issued_at + JwtExp + 60
           THEN /\ is_ok(unwrap(jwt.result))
                /\ unwrap(jwt.result).val.sub = jwt.username
                /\ unwrap(jwt.result).val = jwt.token.claims
           ELSE /\ ~is_ok(unwrap(jwt.result))
                /\ unwrap(jwt.result).val[1] = "DecodeFailed"
                /\ ApiError_from_JWTError(unwrap(jwt.result).val) = "AuthenticationError"

\* A token was refused for its age alone.
C8_Witness ==
    /\ JwtVerified
    /\ jwt.decoded_at > jwt.issued_at + JwtExp + 60
    /\ ~is_ok(unwrap(jwt.result))
    /\ jwt.issued_at > 0

(* ========================= Access Guard: claims ======================== *)

\* The step in which the guard takes the request on connection p.
GuardStep(p) ==
    /\ preq'[p] # preq[p]
    /\ preq[p].pc \in {"new", "done", "closed"}
    /\ preq'[p].pc \in {"handler", "done"}

\* The token stands verification against the configuration at this instant.
Verifies(bearer) == is_ok(decode_auth_token(bearer, JwtConfig, now))

\* The user the Store holds for a username at this instant, as the lookup
\* joins it with the count of its referrals.
StoredAs(user, username) ==
    \E i \in RowsOfUsername(username) :
        /\ user.username = users[i].username
        /\ user.invite_code = users[i].invite_code
        /\ user.referred_by = users[i].referred_by
        /\ user.referrals = Cardinality({j \in 1..Len(users) : users[j].referred_by = Some(username)})

C9_Guard(p) ==
    LET bearer == preq'[p].bearer
        sub    == bearer.claims.sub
    IN  IF Verifies(bearer) /\ RowsOfUsername(sub) # {}
        THEN /\ preq'[p].pc = "handler"
             /\ is_some(preq'[p].user)
             /\ StoredAs(unwrap(preq'[p].user), sub)
             /\ preq'[p].response = None
        ELSE /\ preq'[p].pc = "done"
             /\ preq'[p].user = None
             /\ preq'[p].response = Some("401 Unauthorized")

C9_Handler(p) ==
    /\ preq[p].pc = "handler" =>
           /\ is_some(preq[p].user)
           /\ unwrap(preq[p].user).username = preq[p].bearer.claims.sub
           /\ Verifies(preq[p].bearer)
    /\ (preq[p].pc = "done" /\ preq[p].response # Some("401 Unauthorized")) =>
           /\ Verifies(preq[p].bearer)
           /\ preq[p].response = Some(<<"200 OK", unwrap(preq[p].user)>>)

\* C9: the Access Guard lets a request through to its handler exactly when
\* its bearer token verifies and the Store, asked in that request, holds a
\* user for the token's subject; the user handed to the handler is the one
\* that lookup returned; any other request is answered 401 with no user.
C9_GuardLooksUpEachRequest ==
    /\ [][\A p \in Prots : GuardStep(p) => C9_Guard(p)]_vars
    /\ [](\A p \in Prots : C9_Handler(p))

\* A request was answered with a user whose referral count the Store had
\* raised since the server started.
C9_Witness ==
    \E p \in Prots :
        /\ preq[p].pc = "done"
        /\ is_some(preq[p].user)
        /\ unwrap(preq[p].user).referrals = 1
        /\ preq[p].response = Some(<<"200 OK", unwrap(preq[p].user)>>)

(* =========================== Event Bus: claims ========================= *)

Subscribed(p) == preq[p].pc \in {"streaming", "closed"}

\* The positions from a + 1 to b, in order.
Span(a, b) == [i \in 1..(b - a) |-> a + i]

\* C10, as stated: a subscriber is forwarded every event published after it
\* subscribed, up to the position it has read to.
C10_ReceivesEveryEvent ==
    \A p \in Prots :
        Subscribed(p) => preq[p].forwarded = Span(preq[p].subscribed_at, preq[p].next)

\* C10, amended: a subscriber is forwarded, in order, the events published
\* after it subscribed, except those the channel had overwritten before it
\* read them, which it is told the number of; it is forwarded no event
\* published before it subscribed; a value waiting for it can always be
\* read; and every publish is accepted, whatever subscribers have come and
\* gone.
C10_BusDelivery ==
    /\ \A p \in Prots :
           Subscribed(p) =>
               /\ preq[p].subscribed_at <= preq[p].next
               /\ preq[p].next <= Len(events)
               /\ Len(preq[p].forwarded) + preq[p].lagged = preq[p].next - preq[p].subscribed_at
               /\ \A i \in 1..Len(preq[p].forwarded) :
                      /\ preq[p].forwarded[i] > preq[p].subscribed_at
                      /\ preq[p].forwarded[i] <= preq[p].next
                      /\ i > 1 => preq[p].forwarded[i - 1] < preq[p].forwarded[i]
               /\ preq[p].lagged = 0 =>
                      preq[p].forwarded = Span(preq[p].subscribed_at, preq[p].next)
               /\ preq[p].lagged > 0 => Len(events) > buffer_len
               /\ (preq[p].pc = "streaming" /\ preq[p].next < Len(events)) =>
                      ENABLED StreamRecv(p)
    /\ Len(events) = Cardinality({<<q, i>> \in Reqs \X (1..2) : i <= Len(Published(q))})
    /\ \A r \in Reqs : (Done(r) /\ Published(r) # <<>>) => RespondedOk(r)

\* A subscriber that came after one event was forwarded a later one.
C10_Witness ==
    \E p \in Prots :
        /\ preq[p].pc = "streaming"
        /\ preq[p].subscribed_at >= 1
        /\ Len(preq[p].forwarded) >= 1

(* ==================== publishing and the request: claims =============== *)

Publishing(r) == req[r].pc \in {"send_login", "send_referral", "send_register"}

\* The token a request is answered with, for the user it holds.
TokenFor(r) == Ok(generate_auth_token(req[r].user.username, JwtConfig, now).val)

\* The publishing step of request r: the event is on the bus, the Store is
\* as it was, and the request goes on to its token (or, after the referral,
\* to the registration event), whoever is or is not subscribed.
C11_Step(r) ==
    (Publishing(r) /\ req'[r] # req[r]) =>
        /\ users' = users
        /\ Len(events') = Len(events) + 1
        /\ IF req[r].pc = "send_referral"
           THEN req'[r].pc = "send_register" /\ req'[r].response = None
           ELSE req'[r].pc = "done" /\ req'[r].response = Some(TokenFor(r))

\* C11: a request that publishes is answered the same, and leaves the same
\* users, with no subscriber, one subscriber, or subscribers that lag or
\* have gone: no publish blocks the request or makes it fail.
C11_PublishNeverFailsRequest ==
    /\ [][\A r \in Reqs : C11_Step(r)]_vars
    /\ [](\A r \in Reqs :
            /\ req[r].pc = "send_login" => ENABLED AuthLogin(r)
            /\ req[r].pc = "send_referral" => ENABLED AuthSendReferral(r)
            /\ req[r].pc = "send_register" => ENABLED AuthRegister(r)
            /\ (Done(r) /\ Published(r) # <<>>) => RespondedOk(r))

\* A registration was answered with its token though no connection had
\* ever subscribed.
C11_Witness ==
    /\ \A p \in Prots : preq[p].pc = "new"
    /\ \E r \in Reqs : Done(r) /\ RespondedOk(r) /\ Has(r, "NewRegister")

(* ========================== pagination: claims ========================= *)

Max(a, b) == IF a >= b THEN a ELSE b

\* The request on connection p was answered with a page of users.
Listed(p) ==
    /\ preq[p].route = "/users"
    /\ preq[p].pc = "done"
    /\ is_some(preq[p].user)
    /\ is_ok(unwrap(preq[p].response))

\* The rows a request may list: not the requester's, and like the pattern.
Matching(p) ==
    {i \in 1..Len(users) :
        /\ users[i].username # unwrap(preq[p].user).username
        /\ is_some(preq[p].query.username) =>
               like(users[i].username, unwrap(preq[p].query.username))}

C12_Page(p, page, limit) ==
    LET answer == unwrap(preq[p].response).val
        N      == Cardinality(Matching(p))
    IN  /\ answer.total_pages = (N \div limit) + 1
        /\ answer.has_next = (page < answer.total_pages)
        /\ answer.has_prev = (page > 1)
        /\ answer.current_page = page
        /\ Len(answer.users) = Min(limit, Max(0, N - (page - 1) * limit))
        /\ \A i \in 1..Len(answer.users) :
               \E j \in Matching(p) : users[j].username = answer.users[i].username
        /\ (page = 2 /\ limit = 10 /\ N = 25) =>
               /\ Len(answer.users) = 10
               /\ answer.has_prev /\ answer.has_next
               /\ answer.total_pages = 3

\* C12: get_users with page p >= 1 and limit L >= 1 over N users that match
\* and are not the requester answers totalPages = N div L + 1, hasNext =
\* (p < totalPages), hasPrev = (p > 1), currentPage = p and min(L, max(0,
\* N - (p - 1) * L)) users, none of them the requester.
C12_Pagination ==
    \A p \in Prots :
        Listed(p) =>
            LET page  == unwrap_or(preq[p].query.page, DEFAULT_PAGE)
                limit == unwrap_or(preq[p].query.limit, DEFAULT_LIMIT)
            IN  (page >= 1 /\ limit >= 1) => C12_Page(p, page, limit)

\* Page 2 by 10 of 25 other users was listed.
C12_Witness ==
    \E p \in Prots :
        /\ Listed(p)
        /\ preq[p].query = [username |-> None, page |-> Some(2), limit |-> Some(10)]
        /\ Cardinality(Matching(p)) = 25
        /\ Len(unwrap(preq[p].response).val.users) = 10

(* ===================== the order of side effects: claims =============== *)

IsPrefix(s, t) == Len(s) <= Len(t) /\ SubSeq(t, 1, Len(s)) = s

\* The side effects of a request, the lookup of the invitation code apart.
SideEffects(r) == SelectSeq(req[r].effects, LAMBDA e : e # "invite_lookup")

LoginOrder == <<"NewLogin", "token">>
RegisterOrder == <<"create", "reread", "NewRegister", "token">>
ReferredOrder == <<"create", "reread", "NewReferral", "NewRegister", "token">>

\* The event a step puts on the bus is about a user the Store holds.
C13_UserBeforeEvent ==
    events' # events =>
        /\ Len(events') = Len(events) + 1
        /\ \E r \in Reqs :
               /\ Publishing(r)
               /\ req'[r] # req[r]
               /\ RowsOfUsername(req[r].username) # {}
               /\ req[r].user.username = req[r].username

\* C13: the side effects of a request come in one order: create, re-read,
\* NewReferral (with a referrer only), NewRegister, token on registration,
\* and NewLogin, token on login; no event of a request is published before
\* its user is in the Store.
C13_EffectOrder ==
    /\ [](\A r \in Reqs :
            /\ \/ IsPrefix(SideEffects(r), LoginOrder)
               \/ IsPrefix(SideEffects(r), RegisterOrder)
               \/ IsPrefix(SideEffects(r), ReferredOrder)
            /\ Has(r, "NewReferral") => is_some(req[r].user.referred_by)
            /\ (Has(r, "NewRegister") /\ is_some(req[r].user.referred_by))
                   => Has(r, "NewReferral")
            /\ RespondedOk(r) => SideEffects(r) \in {LoginOrder, RegisterOrder, ReferredOrder})
    /\ [][C13_UserBeforeEvent]_vars

\* A registration and a registration it referred both ran to their tokens.
C13_Witness ==
    /\ \E r \in Reqs : SideEffects(r) = ReferredOrder
    /\ \E r \in Reqs : SideEffects(r) = RegisterOrder

(* ==================== a token that does not verify: claims ============= *)

\* C14: when the bearer token does not verify, the Access Guard answers 401
\* without asking the Store (and asks it once when the token verifies), and
\* the route's handler does not run.
C14_NoLookupOnBadToken ==
    [][\A p \in Prots :
          GuardStep(p) =>
              IF Verifies(preq'[p].bearer)
              THEN preq'[p].lookups = 1
              ELSE /\ preq'[p].lookups = 0
                   /\ preq'[p].pc = "done"
                   /\ preq'[p].user = None
                   /\ preq'[p].response = Some("401 Unauthorized")]_vars

\* A token with another key's signature, for a user the Store holds, was
\* turned away.
C14_Witness ==
    \E p \in Prots :
        /\ preq[p].pc = "done"
        /\ preq[p].bearer.sig # sign(JwtConfig.secret, <<preq[p].bearer.header, preq[p].bearer.claims>>)
        /\ RowsOfUsername(preq[p].bearer.claims.sub) # {}
        /\ preq[p].lookups = 0
        /\ preq[p].user = None

(* ======================= the bounded buffer: claims ==================== *)

\* The step in which the stream on connection p comes back from recv.
RecvStep(p) ==
    /\ preq[p].pc = "streaming"
    /\ preq'[p].pc = "streaming"
    /\ preq'[p] # preq[p]

Behind(p) == Len(events) - preq[p].next

\* A recv of a receiver more than `most` behind reports a lag and forwards
\* nothing, and the stream goes on; any other recv forwards the next value.
LagsBeyond(p, most) ==
    IF Behind(p) > most
    THEN /\ preq'[p].lagged > preq[p].lagged
         /\ preq'[p].forwarded = preq[p].forwarded
    ELSE /\ preq'[p].lagged = preq[p].lagged
         /\ preq'[p].forwarded = Append(preq[p].forwarded, preq[p].next + 1)
         /\ preq'[p].next = preq[p].next + 1

\* C15, as stated: a subscriber more than the requested capacity behind
\* observes a lag.
C15_LagsBeyondCapacity ==
    [][\A p \in Prots : RecvStep(p) => LagsBeyond(p, chan.capacity)]_vars

\* C15, amended: the buffer holds the next power of two of the requested
\* capacity (128 for 100); a publish is accepted wherever the subscribers
\* are; a subscriber more than the buffer's length behind is told of a
\* lag, loses exactly its oldest unread values down to the buffer's length,
\* stays connected and is forwarded the values kept and the later ones in
\* order; a subscriber no more than that behind loses nothing.
C15_BoundedBuffer ==
    /\ [][\A p \in Prots :
             RecvStep(p) =>
                 /\ LagsBeyond(p, next_power_of_two(chan.capacity))
                 /\ Behind(p) > buffer_len =>
                        /\ preq'[p].next = Len(events) - buffer_len
                        /\ preq'[p].lagged = preq[p].lagged + (preq'[p].next - preq[p].next)
                 /\ Len(events) - preq'[p].next <= buffer_len]_vars
    /\ [](/\ chan.buffer_len >= chan.capacity
          /\ Len(events) < MaxSent => ENABLED (\E i \in 1..Len(users) : Publish(User_from(users, users[i])))
          /\ \A p \in Prots :
                 Subscribed(p) =>
                     /\ Len(preq[p].forwarded) + preq[p].lagged = preq[p].next - preq[p].subscribed_at
                     /\ \A i \in 2..Len(preq[p].forwarded) :
                            preq[p].forwarded[i - 1] < preq[p].forwarded[i]
                     /\ (preq[p].pc = "streaming" /\ preq[p].next < Len(events)) =>
                            ENABLED StreamRecv(p))

\* A subscriber was told of a lag and then forwarded the values kept, up
\* to the last one sent.
C15_Witness ==
    \E p \in Prots :
        /\ preq[p].pc = "streaming"
        /\ preq[p].lagged > 0
        /\ Len(preq[p].forwarded) >= buffer_len
        /\ preq[p].next = Len(events)
        /\ chan.buffer_len > chan.capacity

(* ================== the invitation code on login: claims =============== *)

\* The user the Store holds under a username, as a lookup returns it.
Stored(username) == User_from(users, users[CHOOSE i \in RowsOfUsername(username) : TRUE])

\* What the login of a user comes to; the invitation code is no part of it.
LoginOutcome(user) ==
    [event    |-> NewLogin(user),
     response |-> Some(Ok(generate_auth_token(user.username, JwtConfig, now).val)),
     effects  |-> LoginOrder]

C16_Step ==
    \A r \in Reqs :
        /\ (LooksUp(r) /\ RowsOfUsername(req'[r].username) # {}) =>
               /\ req'[r].pc = "send_login"
               /\ req'[r].effects = <<>>
               /\ req'[r].user = Stored(req'[r].username)
        /\ LogsIn(r) =>
               /\ events' = Append(events, LoginOutcome(req[r].user).event)
               /\ req'[r].response = LoginOutcome(req[r].user).response
               /\ req'[r].effects = LoginOutcome(req[r].user).effects
               /\ req'[r].user = req[r].user
               /\ req[r].user.username = req[r].username
               /\ users' = users

\* C16: on the login branch the invitation code plays no part: with none,
\* with an owned one or with one nobody owns, no code is looked up, no
\* error is returned, and the NewLogin event and the token are those of the
\* user as the request's lookup found it in the Store.
C16_LoginIgnoresCode ==
    /\ [][C16_Step]_vars
    /\ [](\A r \in Reqs :
            TookLogin(r) =>
                /\ ~Has(r, "invite_lookup")
                /\ req[r].referrer_username = None
                /\ Done(r) => RespondedOk(r))

\* A login with an invitation code that no user owns was answered with a token.
C16_Witness ==
    \E r \in Reqs :
        /\ TookLogin(r)
        /\ RespondedOk(r)
        /\ is_some(req[r].invitation_code)
        /\ RowsOfCode(unwrap(req[r].invitation_code)) = {}

(* ========================= error categories: claims ==================== *)

\* The step in which request r returns.
Returns(r) == req[r].pc # "done" /\ req'[r].pc = "done"

ReturnsErr(r, category) ==
    /\ Returns(r)
    /\ ~is_ok(unwrap(req'[r].response))
    /\ unwrap(req'[r].response).val = category

\* C17: a request that returns because a Store call failed returns
\* ServerError; InvalidInviteCode is returned only by the lookup of an
\* invitation code that has no owner, and AuthenticationError only when no
\* token could be issued.
C17_StoreFailureIsServerError ==
    [][\A r \in Reqs :
          /\ (Returns(r) /\ req'[r].store_failed) => ReturnsErr(r, "ServerError")
          /\ ReturnsErr(r, "InvalidInviteCode") =>
                 /\ ~req'[r].store_failed
                 /\ req[r].pc = "invite_lookup"
                 /\ RowsOfCode(unwrap(req[r].invitation_code)) = {}
          /\ ReturnsErr(r, "AuthenticationError") =>
                 ~is_ok(generate_auth_token(req[r].user.username, JwtConfig, now))]_vars

(* ========================== short usernames: claims ==================== *)

\* Request r is past the making of its invite code, or ended there.
PastGenCode(r) == TookRegistration(r) /\ req[r].pc \notin {"invite_lookup", "gen_code"}

\* C18: the registration of a username shorter than the prefix returns
\* InputError, with no user created and no event published.
C18_ShortUsernameIsInputError ==
    \A r \in Reqs :
        (PastGenCode(r) /\ prefix_panics(req[r].username) /\ ~req[r].store_failed) =>
            /\ Done(r)
            /\ ~is_ok(unwrap(req[r].response))
            /\ unwrap(req[r].response).val = "InputError"
            /\ RowsOfUsername(req[r].username) = {}
            /\ Published(r) = <<>>

(* ===================== failures before the create: claims ============== *)

\* The step in which request r, the owner of its invitation code found
\* and its user not yet created, comes to an end.
FailsBeforeCreate(r) ==
    /\ is_some(req[r].referrer_username)
    /\ req[r].pc \in {"gen_code", "create"}
    /\ req'[r].pc \in {"done", "panicked"}

\* C19: a registration that fails after its invitation code was found to
\* have an owner and before its user is created returns ServerError, with
\* the Store and the bus as they were.
C19_FailureBeforeCreate ==
    [][\A r \in Reqs :
          FailsBeforeCreate(r) =>
              /\ ReturnsErr(r, "ServerError")
              /\ users' = users
              /\ events' = events
              /\ Published(r) = <<>>]_vars

(* ================== one answer for every bad token: claims ============= *)

\* The tokens a client may present that do not verify, by what is wrong.
BadTokens(kind) ==
    {bearer \in PresentedTokens \cup IssuedTokens :
        LET token == decode_auth_token(bearer, JwtConfig, now)
        IN  ~is_ok(token) /\ token.val = <<"DecodeFailed", kind>>}

\* What the client is left with: everything of its connection's record but
\* the token it sent.
Seen(rec) == [rec EXCEPT !.bearer = NoToken]

\* C20: a token with a bad signature and an expired token get one and the
\* same answer: both verdicts convert to AuthenticationError, and the
\* Access Guard answers both requests 401 with nothing to tell them apart.
C20_OneAnswerForBadTokens ==
    /\ [](\A bad \in BadTokens("InvalidSignature"), old \in BadTokens("ExpiredSignature") :
            /\ ApiError_from_JWTError(decode_auth_token(bad, JwtConfig, now).val)
                   = ApiError_from_JWTError(decode_auth_token(old, JwtConfig, now).val)
            /\ check_auth(bad, users, TRUE) = check_auth(old, users, TRUE))
    /\ [][\A p \in Prots :
             (GuardStep(p) /\ ~Verifies(preq'[p].bearer)) =>
                 Seen(preq'[p]) = [NewProtected EXCEPT !.route = preq'[p].route, !.pc = "done",
                                                       !.response = Some("401 Unauthorized")]]_vars

\* An expired token of a user the Store holds was turned away.
C20_Witness ==
    \E p \in Prots :
        /\ preq[p].pc = "done"
        /\ preq[p].bearer \in BadTokens("ExpiredSignature")
        /\ BadTokens("InvalidSignature") # {}
        /\ RowsOfUsername(preq[p].bearer.claims.sub) # {}
        /\ preq[p].response = Some("401 Unauthorized")

(* ====================== the Store only grows: claims =================== *)

\* The step in which request r, on the registration branch, has its user
\* inserted.
Creates(r) ==
    /\ req[r].pc = "create"
    /\ req'[r].pc = "reread"
    /\ TookRegistration(r)
    /\ users' = Append(users, [username |-> req[r].username,
                               invite_code |-> req[r].invite_code,
                               referred_by |-> req[r].referrer_username])

\* C21: whatever the requests (authenticate, the protected routes, the
\* stream) and whether the Store's calls succeed or fail, every step leaves
\* each user of the Store in place with its username, invite code and
\* referrer, and the only step that changes the Store is the create of a
\* request on the registration branch, which adds one user; no step of a
\* login, of the guard, of a protected handler or of a stream changes it.
C21_StoreOnlyGrows ==
    [][/\ IsPrefix(users, users')
       /\ users' # users => \E r \in Reqs : Creates(r) /\ preq' = preq
       /\ \A r \in Reqs : (req'[r] # req[r] /\ ~Creates(r)) => users' = users
       /\ preq' # preq => users' = users]_vars

\* With a user in the Store, a later request logged in as that user, the
\* guard let a stream through and the stream forwarded an event, and a
\* create failed.
C21_Witness ==
    /\ Len(users) >= 1
    /\ \E r \in Reqs : Done(r) /\ Has(r, "NewLogin") /\ RowsOfUsername(req[r].username) # {}
    /\ \E r \in Reqs : Done(r) /\ req[r].store_failed /\ req[r].invite_code # <<>>
    /\ \E p \in Prots : preq[p].pc = "streaming" /\ preq[p].forwarded # <<>>

(* ================= a Store failure in the guard: claims ================ *)

\* ApiError::ServerError as a response (errors.rs, into_response), by its
\* status line.
ServerErrorResponse == "500 Internal Server Error"

\* C22: a request to a protected route whose subject lookup failed in the
\* Store is answered with ServerError, and not as an unauthenticated one.
C22_GuardStoreFailureIsServerError ==
    \A p \in Prots :
        preq[p].store_failed =>
            /\ preq[p].pc = "done"
            /\ preq[p].response = Some(ServerErrorResponse)

(* ================== one NewRegister per user: claims =================== *)

\* Request r had its user inserted.
Created(r) == Has(r, "create")

\* The row of the users table a NewRegister event tells of.
RowOf(user) ==
    [username |-> user.username, invite_code |-> user.invite_code,
     referred_by |-> user.referred_by]

\* C23: however concurrent authenticate requests interleave and whichever
\* Store calls fail, NewRegister is published at most once for a username,
\* only by the request that created the user and only with the user in the
\* Store; a user whose creating request returned its token has had exactly
\* one NewRegister published, by that request; and a creating request that
\* did not get that far failed on the re-read, returned ServerError, and
\* left a user for which no NewRegister is published.
C23_RegisterOncePerUser ==
    /\ \A username \in Usernames : Cardinality(RegistersOf(username)) <= 1
    /\ \A i \in EventsOfType("NewRegister") :
           \E k \in 1..Len(users) : users[k] = RowOf(events[i].data)
    /\ \A r \in Reqs :
           /\ Has(r, "NewRegister") => Created(r) /\ Count(r, "NewRegister") = 1
           /\ (Created(r) /\ RespondedOk(r)) =>
                  /\ Has(r, "NewRegister")
                  /\ Cardinality(RegistersOf(req[r].username)) = 1
           /\ (Created(r) /\ Done(r) /\ ~RespondedOk(r)) =>
                  /\ req[r].store_failed
                  /\ req[r].effects[Len(req[r].effects)] = "reread"
                  /\ req[r].response = Some(Err("ServerError"))
                  /\ RowsOfUsername(req[r].username) # {}
                  /\ RegistersOf(req[r].username) = {}

\* Two requests raced to register one username: one created the user,
\* published its NewRegister and returned its token; the other's insert
\* was refused.
C23_Witness ==
    \E r, q \in Reqs :
        /\ r # q
        /\ req[r].username = req[q].username
        /\ Created(r) /\ RespondedOk(r)
        /\ Cardinality(RegistersOf(req[r].username)) = 1
        /\ TookRegistration(q) /\ Done(q) /\ ~Created(q)
        /\ req[q].invite_code # <<>>
        /\ RowsOfCode(req[q].invite_code) = {}

\* A user whose creating request failed on the re-read, and a later request
\* that logged in as that user.
C23_FailedAfterCreate ==
    \E r, q \in Reqs :
        /\ r # q
        /\ req[r].username = req[q].username
        /\ Created(r) /\ Done(r) /\ ~RespondedOk(r)
        /\ RespondedOk(q) /\ Has(q, "NewLogin")

(* ======================= who refers to whom: claims ==================== *)

\* The rows created before the i-th whose username is the i-th's referrer.
ReferrerRows(i) ==
    {j \in 1..(i - 1) : Some(users[j].username) = users[i].referred_by}

\* C24: in every state, a user's referrer is nobody or a user of another
\* name that is in the Store and was created before; no user refers to
\* itself or to a username the Store does not hold.
C24_ReferrerExistsEarlier ==
    \A i \in 1..Len(users) :
        is_some(users[i].referred_by) =>
            /\ unwrap(users[i].referred_by) # users[i].username
            /\ RowsOfUsername(unwrap(users[i].referred_by)) # {}
            /\ ReferrerRows(i) # {}

\* A request registered its user with the owner of its invitation code,
\* an earlier row of the table, for referrer.
C24_Witness ==
    \E r \in Reqs : \E i \in RowsOfUsername(req[r].username) :
        /\ Created(r) /\ RespondedOk(r)
        /\ is_some(req[r].referrer_username)
        /\ users[i].referred_by = req[r].referrer_username
        /\ ReferrerRows(i) # {}

\* A request came to be its own referrer (its username was registered,
\* with the code it had supplied, between its two lookups) and its insert
\* was refused.
C24_SelfReferralRefused ==
    \E r \in Reqs :
        /\ req[r].referrer_username = Some(req[r].username)
        /\ Done(r) /\ ~RespondedOk(r) /\ ~Created(r)
        /\ \E i \in RowsOfUsername(req[r].username) : users[i].referred_by = None

(* ================== at most once and in order: claims ================== *)

\* Connection p holds the same subscription before and after the step.
SameStream(p) ==
    /\ Subscribed(p)
    /\ preq'[p].pc \in {"streaming", "closed"}
    /\ preq'[p].subscribed_at = preq[p].subscribed_at

\* The values a stream yielded, by what they were when published.
Delivered(p) == [i \in 1..Len(preq[p].forwarded) |-> events[preq[p].forwarded[i]]]

\* C25: what a stream has forwarded to its peer is a subsequence of the
\* events published after it subscribed: each value forwarded is the event
\* at a position of the published sequence past the subscription, the
\* positions go strictly up (publish order, no event twice); and the
\* sequence forwarded only ever grows, by one value a step, over a
\* published sequence that only ever grows.
C25_AtMostOnceInOrder ==
    /\ [](\A p \in Prots :
            Subscribed(p) =>
                /\ \A i \in 1..Len(preq[p].forwarded) :
                       /\ preq[p].forwarded[i] \in (preq[p].subscribed_at + 1)..Len(events)
                       /\ \A j \in 1..(i - 1) : preq[p].forwarded[j] < preq[p].forwarded[i]
                /\ Len(Delivered(p)) <= Len(events) - preq[p].subscribed_at)
    /\ [][/\ IsPrefix(events, events')
          /\ \A p \in Prots :
                 SameStream(p) =>
                     /\ IsPrefix(preq[p].forwarded, preq'[p].forwarded)
                     /\ Len(preq'[p].forwarded) <= Len(preq[p].forwarded) + 1
                     /\ events' # events => preq'[p].forwarded = preq[p].forwarded]_vars

\* A stream that subscribed after the first event fell behind and was
\* forwarded some of the later events and not others: what it forwarded
\* has a gap.
C25_Witness ==
    \E p \in Prots :
        /\ preq[p].pc = "streaming"
        /\ preq[p].subscribed_at >= 1
        /\ preq[p].lagged >= 1
        /\ \E i \in 2..Len(preq[p].forwarded) :
               preq[p].forwarded[i] > preq[p].forwarded[i - 1] + 1

(* ====================== the page after this one: claims ================ *)

\* The users the handler returns for page k of the list connection p asked
\* for, the limit and the filter being those of its request.
PageOf(p, k) ==
    get_users(users, unwrap(preq[p].user), [preq[p].query EXCEPT !.page = Some(k)], TRUE).val.users

\* C26: in an answer of get_users with a limit of 1 or more, hasNext tells
\* that the next page has a user on it, and totalPages is the number of the
\* last page that has one (0 when nothing matches).
C26_HasNextMeansMore ==
    \A p \in Prots :
        Listed(p) =>
            LET page   == unwrap_or(preq[p].query.page, DEFAULT_PAGE)
                limit  == unwrap_or(preq[p].query.limit, DEFAULT_LIMIT)
                answer == unwrap(preq[p].response).val
            IN  (page >= 1 /\ limit >= 1) =>
                    /\ answer.has_next => PageOf(p, page + 1) # <<>>
                    /\ PageOf(p, answer.total_pages + 1) = <<>>
                    /\ answer.total_pages >= 1 => PageOf(p, answer.total_pages) # <<>>
                    /\ answer.total_pages = 0 <=> Matching(p) = {}

====
